---- MODULE Spec2Model ----
(* A model of dprint_on_save.py: the save handler, the per-file            *)
(* serialization of 'dprint fmt' runs, the runner thread, the UI-thread    *)
(* callback queue and the config locator.                                  *)
EXTENDS Integers, Sequences, FiniteSets, TLC

(***************************************************************************)
(* Bounds                                                                  *)
(***************************************************************************)
\* number of post-save events the host emits in one behaviour
MaxEmits == 3

(***************************************************************************)
(* Paths.  A path is the sequence of its components; the root is <<>>.     *)
(***************************************************************************)
None == <<>>

\* done_event = None
NoEvent == <<>>

\* os.path.dirname: drops the last component; the root is its own parent
Dirname(p) == IF Len(p) = 0 THEN p ELSE SubSeq(p, 1, Len(p) - 1)

\* os.path.basename
Basename(p) == IF Len(p) = 0 THEN "" ELSE p[Len(p)]

\* os.path.join(cur, name)
Join(cur, name) == Append(cur, name)

FileP == <<"proj", "src", "a.ts">>
FileQ == <<"proj", "b.ts">>
FileR == <<"other", "c.md">>
Paths == {FileP, FileQ, FileR}

Views == {"v1", "v2", "v3"}

\* view.file_name()
file_name(v) == IF v = "v1" THEN FileP ELSE IF v = "v2" THEN FileQ ELSE FileR

Dirs == {<<>>, <<"proj">>, <<"proj", "src">>, <<"other">>}

\* the names tried at each level, in the order the loop tries them
ConfigNames == <<"dprint.json", "dprint.jsonc">>

AllCfgFiles == {Join(d, ConfigNames[k]) : d \in Dirs, k \in 1..Len(ConfigNames)}

\* the config files there when the plugin is loaded
InitCfgFiles == {<<"proj", "dprint.json">>}

\* the config files that appear and disappear while the plugin runs
LiveCfgFiles == {<<"proj", "src", "dprint.json">>}

(***************************************************************************)
(* find_dprint_config                                                      *)
(***************************************************************************)
\* the inner 'for name in (...)' loop at one directory, from index k on
RECURSIVE FirstConfigAt(_, _, _)
FirstConfigAt(cur, k, files) ==
    IF k > Len(ConfigNames) THEN None
    ELSE IF Join(cur, ConfigNames[k]) \in files THEN Join(cur, ConfigNames[k])
    ELSE FirstConfigAt(cur, k + 1, files)

\* a locator that tries dprint.jsonc before dprint.json: not the code's order
FirstConfigAtJsoncFirst(cur, k, files) ==
    IF Join(cur, ConfigNames[2]) \in files THEN Join(cur, ConfigNames[2])
    ELSE IF Join(cur, ConfigNames[1]) \in files THEN Join(cur, ConfigNames[1])
    ELSE None

\* one level of the walk: the names in order at cur
ConfigAt(cur, k, files) == FirstConfigAt(cur, k, files)

RECURSIVE find_dprint_config(_, _)
find_dprint_config(start_path, files) ==
    LET p == ConfigAt(start_path, 1, files)
        parent == Dirname(start_path)
    IN  IF p # None THEN p
        ELSE IF parent = start_path THEN None
        ELSE find_dprint_config(parent, files)

(***************************************************************************)
(* Text.  A text is a sequence of characters (one-character strings;       *)
(* "ESC" stands for \x1B).                                                  *)
(***************************************************************************)
UpperToLower ==
    ("N" :> "n") @@ ("O" :> "o") @@ ("F" :> "f") @@ ("I" :> "i") @@
    ("L" :> "l") @@ ("E" :> "e") @@ ("S" :> "s") @@ ("M" :> "m") @@
    ("A" :> "a") @@ ("T" :> "t") @@ ("C" :> "c") @@ ("H" :> "h") @@
    ("G" :> "g") @@ ("R" :> "r")

\* str.lower()
Lower(t) == [k \in 1..Len(t) |->
                IF t[k] \in DOMAIN UpperToLower THEN UpperToLower[t[k]] ELSE t[k]]

\* needle in hay
Contains(hay, needle) ==
    \E k \in 0..(Len(hay) - Len(needle)) :
        \A j \in 1..Len(needle) : hay[k + j] = needle[j]

\* character classes of ANSI_ESCAPE_RE: [0-?], [ -/], [@-~]
CsiParam == {"0", "1", "2", "3", "4", "5", "6", "7", "8", "9", ":", ";", "<", "=", ">", "?"}
CsiInter == {" ", "!", "#", "$", "%", "&", "'", "(", ")", "*", "+", ",", "-", ".", "/"}
IsCsiFinal(c) == c # "ESC" /\ c # "\n" /\ c \notin CsiParam /\ c \notin CsiInter

\* the end of the longest run of characters of class cls starting at k
RECURSIVE SkipClass(_, _, _)
SkipClass(t, k, cls) ==
    IF k <= Len(t) /\ t[k] \in cls THEN SkipClass(t, k + 1, cls) ELSE k

\* ANSI_ESCAPE_RE.sub('', text), scanning from index k
RECURSIVE StripFrom(_, _)
StripFrom(t, k) ==
    IF k > Len(t) THEN <<>>
    ELSE IF t[k] = "ESC" /\ k + 1 <= Len(t) /\ t[k + 1] = "["
         THEN LET f == SkipClass(t, SkipClass(t, k + 2, CsiParam), CsiInter)
              IN  IF f <= Len(t) /\ IsCsiFinal(t[f])
                  THEN StripFrom(t, f + 1)
                  ELSE <<t[k]>> \o StripFrom(t, k + 1)
         ELSE <<t[k]>> \o StripFrom(t, k + 1)

strip_ansi(text) == StripFrom(text, 1)

\* the characters str.strip() and str.splitlines() treat as blank
Whitespace == {" ", "\n", "\t", "\r"}

\* str.lstrip()
RECURSIVE LStrip(_)
LStrip(t) == IF t # <<>> /\ Head(t) \in Whitespace THEN LStrip(Tail(t)) ELSE t

\* str.rstrip()
RECURSIVE RStrip(_)
RStrip(t) ==
    IF t # <<>> /\ t[Len(t)] \in Whitespace THEN RStrip(SubSeq(t, 1, Len(t) - 1)) ELSE t

\* str.strip()
Strip(t) == RStrip(LStrip(t))

\* the index of the first character of t in cs, Len(t) + 1 if there is none
FirstOf(t, cs) ==
    IF \E k \in 1..Len(t) : t[k] \in cs
    THEN CHOOSE k \in 1..Len(t) : t[k] \in cs /\ \A j \in 1..(k - 1) : t[j] \notin cs
    ELSE Len(t) + 1

\* str.splitlines(), for texts whose only line boundary is "\n"
RECURSIVE SplitLines(_)
SplitLines(t) ==
    IF t = <<>> THEN <<>>
    ELSE LET k == FirstOf(t, {"\n"})
         IN  <<SubSeq(t, 1, k - 1)>> \o SplitLines(SubSeq(t, k + 1, Len(t)))

\* os.path.basename of a path written as text: what follows the last "/"
RECURSIVE TextBasename(_)
TextBasename(t) ==
    LET k == FirstOf(t, {"/"})
    IN  IF k > Len(t) THEN t ELSE TextBasename(SubSeq(t, k + 1, Len(t)))

\* a path written as text: "/" before each component, a name being one item
RECURSIVE PathText(_)
PathText(p) == IF p = <<>> THEN <<>> ELSE <<"/", Head(p)>> \o PathText(Tail(p))

\* "{}".format(n) for an exit code
RECURSIVE NatStr(_)
NatStr(n) ==
    LET d == <<"0", "1", "2", "3", "4", "5", "6", "7", "8", "9">>
    IN  IF n < 10 THEN <<d[n + 1]>> ELSE NatStr(n \div 10) \o <<d[(n % 10) + 1]>>

IntStr(n) == IF n < 0 THEN <<"-">> \o NatStr(0 - n) ELSE NatStr(n)


(***************************************************************************)
(* Results of the external tool                                            *)
(***************************************************************************)
T_Empty == <<>>
T_NoFilesMixed == <<"N", "o", " ", "F", "i", "l", "e", "s">>
T_NoMatching ==
    <<"n", "o", " ", "m", "a", "t", "c", "h", "i", "n", "g", " ", "f", "i", "l", "e", "s">>
T_Err == <<"e", "r", "r">>
T_No == <<"n", "o", " ">>
T_Files == <<"f", "i", "l", "e", "s">>

T_NoEscFilesMixed == <<"N", "o", " ", "ESC", "[", "1", ";", "3", "1", "m", "F", "i", "l", "e", "s">>

\* a completed process
Exit(returncode, stdout, stderr) ==
    [kind |-> "exit", returncode |-> returncode, stdout |-> stdout, stderr |-> stderr]

\* subprocess.run raised: kind is the exception class, stderr its text
Raised(kind, text) ==
    [kind |-> kind, returncode |-> 0, stdout |-> T_Empty, stderr |-> text]

OutTexts == {T_Empty, T_NoFilesMixed, T_NoMatching, T_NoEscFilesMixed, T_Err, T_No, T_Files}

ExitCodes == {0, 1, 2, 101}

\* what subprocess.run of 'dprint fmt' can produce: a completed process
\* (returncode, stdout, stderr), FileNotFoundError, or another exception
AllFmtResults ==
    {Exit(c, o, e) : c \in ExitCodes, o \in OutTexts, e \in OutTexts}
    \cup {Raised("FileNotFoundError", T_Err), Raised("Exception", T_Err)}

\* one result for each way run() can go, for the runs of the plugin
FmtResults ==
    { Exit(0, T_Empty, T_Empty),
      Exit(1, T_Empty, T_NoEscFilesMixed),
      Exit(2, T_No, T_Files),
      Raised("FileNotFoundError", T_Err),
      Raised("Exception", T_Err) }

NoResult == [kind |-> "none", returncode |-> 0, stdout |-> T_Empty, stderr |-> T_Empty]

\* texts 'dprint output-file-paths' can print
ProbeTexts ==
    { T_Empty,
      <<"\n", " ", "\n">>,
      T_Err,
      PathText(FileP) \o <<"\n">>,
      <<"ESC", "[", "1", "m">> \o PathText(FileP) \o <<"ESC", "[", "0", "m", "\n">>,
      PathText(<<"other", "x.md">>) \o <<"\n", " ">> \o PathText(FileQ) \o <<" ", "\n">>,
      PathText(<<"other", "a.ts">>),
      PathText(FileQ) \o <<"/">>,
      PathText(<<"proj", "b.ts", "x.md">>),
      <<"b.ts">>,
      PathText(FileP) \o <<" ">> \o PathText(FileQ),
      PathText(FileR) \o <<"\n", "\n">> \o PathText(FileP) }

\* what subprocess.run of 'dprint output-file-paths' can produce
AllProbeResults ==
    {Exit(c, o, e) : c \in {0, 1, 2}, o \in ProbeTexts, e \in {T_Empty, T_Err}}
    \cup {Raised("FileNotFoundError", T_Err), Raised("Exception", T_Err)}

\* one result for each way handled_by_dprint can go, for the plugin's probes
ProbeResults ==
    { Exit(0, T_Empty, T_Empty),
      Exit(0, PathText(FileP) \o <<"\n">>, T_Empty),
      Exit(0, PathText(<<"other", "x.md">>) \o <<"\n", " ">> \o PathText(FileQ) \o <<" ", "\n">>,
           T_Empty),
      Exit(2, T_Empty, T_Err),
      Raised("Exception", T_Err) }

\* a probe that lets a save through only on a nonzero exit: not the code's
ProbeFailsClosed(file_path, res) == res.kind = "exit" /\ res.returncode # 0

\* handled_by_dprint(file_path, config_path), res being what subprocess.run
\* produced
handled_by_dprint(file_path, res) ==
    IF res.kind = "exit"
    THEN IF res.returncode = 0
         THEN LET out == Strip(strip_ansi(res.stdout))
                  fname == <<Basename(file_path)>>
                  lines == SplitLines(out)
              IN  IF out = <<>> THEN FALSE
                  ELSE \E k \in 1..Len(lines) :
                           TextBasename(Strip(lines[k])) = fname
         ELSE TRUE
    ELSE TRUE

\* low = (stdout + "\n" + stderr).lower()
CombinedLow(stdout, stderr) == Lower(stdout \o <<"\n">> \o stderr)

\* a test that knows "no matching files" only: not the code's test
IsBenignOnlyNoMatching(low) == Contains(low, T_NoMatching)

\* "no files" in low or "no matching files" in low
IsBenign(low) ==
    Contains(low, <<"n", "o", " ", "f", "i", "l", "e", "s">>)
    \/ Contains(low, T_NoMatching)

FailedMsg(returncode, stdout, stderr) ==
    <<"dprint fmt failed (exit ">> \o IntStr(returncode) \o <<"):\n\nSTDOUT:\n">>
        \o stdout \o <<"\n\nSTDERR:\n">> \o stderr

NotFoundMsg == <<"dprint binary not found in PATH. Install from https://dprint.dev/">>

UnexpectedMsg(e) == <<"Unexpected error: ">> \o e

(***************************************************************************)
(* Buffer and disk contents for _maybe_revert                              *)
(***************************************************************************)
\* buffer texts as sequences of code points, disk contents as byte sequences
BufTexts == {<<97>>, <<233>>}
DiskReads == {<<97>>, <<195, 169>>}

RECURSIVE EncodeUtf8(_)
EncodeUtf8(t) ==
    IF t = <<>> THEN <<>>
    ELSE LET c == Head(t)
             b == IF c < 128 THEN <<c>>
                  ELSE <<192 + (c \div 64), 128 + (c % 64)>>
         IN  b \o EncodeUtf8(Tail(t))

\* a test that ignores is_dirty(): not the code's test
RevertBlockedLoadingOnly(loading, dirty) == loading

\* v.is_loading() or v.is_dirty()
RevertBlocked(loading, dirty) == loading \/ dirty


(***************************************************************************)
(* State                                                                   *)
(***************************************************************************)
VARIABLES
    fs,               \* the config files that exist on disk
    emitted,          \* number of post-save events emitted by the host
    body_runs,        \* view -> handler bodies executed for its latest save
    handlers,         \* view -> the on_post_save_async call now past the guard
    busy,             \* DprintOnSave._busy
    ui_queue,         \* callbacks passed to sublime.set_timeout(..., 0)
    running_by_path,  \* _running_by_path: file_path -> event
    pending_by_path,  \* _pending_by_path
    runs,             \* DprintRunner threads started and not yet finished
    next_run,         \* file_path -> number of DprintRunner threads created for it
    events_set,       \* the events on which set() was called
    editor_cmd,       \* the last UI callback's command to the editor: an append
                      \* to the panel, or what _maybe_revert saw and issued
    loc_start,        \* the locator's argument
    loc_cur,          \* the locator's cur
    loc_ret,          \* the locator's result
    loc_done,         \* the locator has returned
    ui_pc,            \* where the UI thread is: "idle" between callbacks and
                      \* commands, "version" inside DprintShowVersionCommand.run
    probe_next        \* the result the probe process is going to give, where
                      \* it is fixed beforehand; NoResult where it is open

vars == <<fs, emitted, body_runs, handlers, busy, ui_queue, running_by_path,
          pending_by_path, runs, next_run, events_set, editor_cmd, loc_start, loc_cur,
          loc_ret, loc_done, ui_pc, probe_next>>

saveVars == <<emitted, body_runs, handlers, busy>>
coordVars == <<running_by_path, pending_by_path, runs, next_run, events_set>>
locVars == <<loc_start, loc_cur, loc_ret, loc_done>>

EmptyMap == [x \in {} |-> 0]

\* _maybe_revert saw the flags loading and dirty and ran command
RevertCmd(loading, dirty, command) ==
    [command |-> command, is_loading |-> loading, is_dirty |-> dirty, characters |-> <<>>]

\* panel.run_command("append", {"characters": characters})
AppendCmd(characters) ==
    [command |-> "append", is_loading |-> FALSE, is_dirty |-> FALSE,
     characters |-> characters]

NoCmd == [command |-> "", is_loading |-> FALSE, is_dirty |-> FALSE, characters |-> <<>>]

InitPlugin ==
    /\ emitted = 0
    /\ body_runs = [v \in Views |-> 0]
    /\ handlers = EmptyMap
    /\ busy = {}
    /\ ui_queue = <<>>
    /\ running_by_path = EmptyMap
    /\ pending_by_path = {}
    /\ runs = EmptyMap
    /\ next_run = [p \in Paths |-> 0]
    /\ events_set = {}
    /\ editor_cmd = NoCmd
    /\ ui_pc = "idle"

Init ==
    /\ InitPlugin
    /\ probe_next = NoResult
    /\ fs = InitCfgFiles
    /\ loc_start = <<>>
    /\ loc_cur = <<>>
    /\ loc_ret = None
    /\ loc_done = FALSE

\* a function without the key k
Without(f, k) == [x \in DOMAIN f \ {k} |-> f[x]]

\* on_main_thread(fn): sublime.set_timeout(lambda: fn(...), 0)
Callback(fn, view, file_path, config_path, run, text) ==
    [fn |-> fn, view |-> view, file_path |-> file_path,
     config_path |-> config_path, run |-> run, text |-> text]

on_main_thread(queue, cb) == Append(queue, cb)

\* a panel write that is not handed to the UI thread: not what the code does
PanelNotQueued(queue, run, text) == queue

\* write_panel(window, text): schedules _append on the UI thread
write_panel(queue, run, text) ==
    on_main_thread(queue, Callback("_append", "", None, None, run, text))

(***************************************************************************)
(* The file system                                                         *)
(***************************************************************************)
\* a config file is created or deleted
FsChange(f) ==
    /\ fs' = IF f \in fs THEN fs \ {f} ELSE fs \cup {f}
    /\ UNCHANGED <<saveVars, ui_queue, coordVars, editor_cmd, locVars, ui_pc, probe_next>>

(***************************************************************************)
(* DprintOnSave.on_post_save_async                                         *)
(***************************************************************************)
\* a handler that goes on without a config: not the code's test
NoConfigNever(config_path) == FALSE

\* if not config_path: return
NoConfig(config_path) == config_path = None

\* if vid in self._busy: return
IsBusy(vid, b) == vid \in b

\* on_post_save_async(view) from its first line to the launch of the probe:
\* the _busy guard, file_name, find_dprint_config, then either the early
\* return through finally or subprocess.run of 'output-file-paths' begins.
\* fresh: the event is the first one of a new physical save of view v.
on_post_save_async(v, fresh) ==
    LET file_path == file_name(v)
        config_path == IF file_path = None THEN None
                       ELSE find_dprint_config(Dirname(file_path), fs)
        before == IF fresh THEN 0 ELSE body_runs[v]
    IN  IF IsBusy(v, busy)
        THEN /\ body_runs' = [body_runs EXCEPT ![v] = before]
             /\ UNCHANGED <<handlers, busy>>
        ELSE /\ body_runs' = [body_runs EXCEPT ![v] = before + 1]
             /\ IF file_path = None \/ NoConfig(config_path)
                THEN UNCHANGED <<handlers, busy>>
                ELSE /\ busy' = busy \cup {v}
                     /\ handlers' = handlers @@
                            (v :> [file_path |-> file_path,
                                   config_path |-> config_path])

\* the user saves view v and the host emits the post-save event
EmitSave(v) ==
    /\ emitted < MaxEmits
    /\ emitted' = emitted + 1
    /\ on_post_save_async(v, TRUE)
    /\ UNCHANGED <<fs, ui_queue, coordVars, editor_cmd, locVars, ui_pc, probe_next>>

\* the host emits the post-save event once more for the latest save of v
EmitAgain(v) ==
    /\ emitted < MaxEmits
    /\ body_runs[v] > 0
    /\ emitted' = emitted + 1
    /\ on_post_save_async(v, FALSE)
    /\ UNCHANGED <<fs, ui_queue, coordVars, editor_cmd, locVars, ui_pc, probe_next>>

\* the probe of the handler of view v returns: if the file is handled,
\* _start_runner is scheduled; then finally: self._busy.discard(vid)
HandlerProbeWith(v, results) ==
    /\ v \in DOMAIN handlers
    /\ \E res \in results :
         ui_queue' = IF handled_by_dprint(handlers[v].file_path, res)
                     THEN on_main_thread(ui_queue,
                              Callback("_start_runner", v, handlers[v].file_path,
                                       handlers[v].config_path, NoEvent, <<>>))
                     ELSE ui_queue
    /\ busy' = busy \ {v}
    /\ handlers' = Without(handlers, v)
    /\ UNCHANGED <<fs, emitted, body_runs, coordVars, editor_cmd, locVars, ui_pc, probe_next>>

HandlerProbeDone(v) == HandlerProbeWith(v, ProbeResults)

(***************************************************************************)
(* Per-file serialization                                                  *)
(***************************************************************************)
\* DprintRunner(view, file_path, config_path, done_event) followed by start()
NewRunner(view, file_path, config_path, done_event) ==
    [view |-> view, file_path |-> file_path, config_path |-> config_path,
     done_event |-> done_event, pc |-> "fmt", result |-> NoResult, dispatched |-> 0]

\* one slot for all files instead of one per file: not the code's test
SlotTakenAny(file_path, slots) == DOMAIN slots # {}

\* file_path in _running_by_path
SlotTaken(file_path, slots) == file_path \in DOMAIN slots

\* a completion that leaves the slot in place: not what the code does
PopSlotKeep(slots, file_path) == slots

\* _running_by_path.pop(file_path, None): the map without the key
PopSlot(slots, file_path) == Without(slots, file_path)

\* history: every run of file_path now in flight saw one more save dispatched
NoteDispatch(rs, file_path) ==
    [r \in DOMAIN rs |->
        IF rs[r].file_path = file_path
        THEN [rs[r] EXCEPT !.dispatched = @ + 1]
        ELSE rs[r]]

\* the UI thread runs _start_runner: _start_or_mark_pending(file_path, factory)
\* and, if it returned a runner, runner.start()
UiStartRunner ==
    /\ ui_pc = "idle"
    /\ ui_queue # <<>>
    /\ Head(ui_queue).fn = "_start_runner"
    /\ LET cb == Head(ui_queue)
           id == <<cb.file_path, next_run[cb.file_path] + 1>>
       IN  /\ ui_queue' = Tail(ui_queue)
           /\ IF SlotTaken(cb.file_path, running_by_path)
              THEN /\ pending_by_path' = pending_by_path \cup {cb.file_path}
                   /\ runs' = NoteDispatch(runs, cb.file_path)
                   /\ UNCHANGED <<running_by_path, next_run>>
              ELSE /\ running_by_path' = running_by_path @@ (cb.file_path :> id)
                   /\ runs' = NoteDispatch(runs, cb.file_path) @@
                                (id :> NewRunner(cb.view, cb.file_path, cb.config_path, id))
                   /\ next_run' = [next_run EXCEPT ![cb.file_path] = @ + 1]
                   /\ UNCHANGED pending_by_path
    /\ UNCHANGED <<fs, saveVars, events_set, editor_cmd, locVars, ui_pc, probe_next>>

\* the UI thread runs _requeue: runner_cls(view, file_path, config_path).start()
UiRequeue ==
    /\ ui_pc = "idle"
    /\ ui_queue # <<>>
    /\ Head(ui_queue).fn = "_requeue"
    /\ LET cb == Head(ui_queue)
           id == <<cb.file_path, next_run[cb.file_path] + 1>>
       IN  /\ ui_queue' = Tail(ui_queue)
           /\ runs' = runs @@ (id :> NewRunner(cb.view, cb.file_path, cb.config_path, NoEvent))
           /\ next_run' = [next_run EXCEPT ![cb.file_path] = @ + 1]
    /\ UNCHANGED <<fs, saveVars, running_by_path, pending_by_path, events_set,
                   editor_cmd, locVars, ui_pc, probe_next>>

\* open(file_path, "rb") failed
ReadFailed == <<-1>>

\* the UI thread runs DprintRunner._maybe_revert; the view's flags, the
\* buffer text and the bytes on disk are what the host has at that moment
UiMaybeRevert ==
    /\ ui_pc = "idle"
    /\ ui_queue # <<>>
    /\ Head(ui_queue).fn = "_maybe_revert"
    /\ \E loading \in BOOLEAN, dirty \in BOOLEAN,
          disk \in DiskReads \cup {ReadFailed}, buf \in BufTexts :
         editor_cmd' =
            RevertCmd(loading, dirty,
                      IF ~RevertBlocked(loading, dirty)
                         /\ disk # ReadFailed
                         /\ EncodeUtf8(buf) # disk
                      THEN "revert" ELSE "none")
    /\ ui_queue' = Tail(ui_queue)
    /\ UNCHANGED <<fs, saveVars, coordVars, locVars, ui_pc, probe_next>>

\* the UI thread runs write_panel's _append
UiAppend ==
    /\ ui_pc = "idle"
    /\ ui_queue # <<>>
    /\ Head(ui_queue).fn = "_append"
    /\ editor_cmd' = AppendCmd(Head(ui_queue).text \o <<"\n">>)
    /\ ui_queue' = Tail(ui_queue)
    /\ UNCHANGED <<fs, saveVars, coordVars, locVars, ui_pc, probe_next>>

(***************************************************************************)
(* DprintRunner.run                                                        *)
(***************************************************************************)
\* the body of run() after subprocess.run returned or raised res, up to the
\* finally clause: what it schedules on the UI thread
RunEffects(queue, r, run, res) ==
    LET stdout == strip_ansi(res.stdout)
        stderr == strip_ansi(res.stderr)
    IN  IF res.kind = "exit"
        THEN IF res.returncode # 0
             THEN IF IsBenign(CombinedLow(stdout, stderr))
                  THEN queue
                  ELSE write_panel(queue, r, FailedMsg(res.returncode, stdout, stderr))
             ELSE on_main_thread(queue,
                      Callback("_maybe_revert", run.view, run.file_path, None, r, <<>>))
        ELSE IF res.kind = "FileNotFoundError"
        THEN write_panel(queue, r, NotFoundMsg)
        ELSE write_panel(queue, r, UnexpectedMsg(res.stderr))

\* 'dprint fmt' ends for run r with one of results
RunCompleteWith(r, results) ==
    /\ r \in DOMAIN runs
    /\ runs[r].pc = "fmt"
    /\ \E res \in results :
         /\ ui_queue' = RunEffects(ui_queue, r, runs[r], res)
         /\ runs' = [runs EXCEPT ![r].pc = "finishing", ![r].result = res]
    /\ UNCHANGED <<fs, saveVars, running_by_path, pending_by_path, next_run,
                   events_set, editor_cmd, locVars, ui_pc, probe_next>>

RunComplete(r) == RunCompleteWith(r, FmtResults)

\* a completion that never starts the follow-up run: not what the code does
RerunNever(file_path, pending) == FALSE

\* rerun = file_path in _pending_by_path
RerunWanted(file_path, pending) == file_path \in pending

\* a completion that leaves the pending flag set: not what the code does
KeepPending(pending, file_path) == pending

\* if rerun: _pending_by_path.discard(file_path)
DiscardPending(pending, file_path) == pending \ {file_path}

\* finally: _finish_and_maybe_rerun(self.file_path, self.view, self.config_path, ...)
Finish(r) ==
    /\ r \in DOMAIN runs
    /\ runs[r].pc = "finishing"
    /\ LET file_path == runs[r].file_path
           ev == IF file_path \in DOMAIN running_by_path
                 THEN running_by_path[file_path] ELSE NoEvent
           rerun == RerunWanted(file_path, pending_by_path)
       IN  /\ running_by_path' = PopSlot(running_by_path, file_path)
           /\ events_set' = IF ev # NoEvent THEN events_set \cup {ev} ELSE events_set
           /\ pending_by_path' = DiscardPending(pending_by_path, file_path)
           /\ ui_queue' = IF rerun
                          THEN on_main_thread(ui_queue,
                                   Callback("_requeue", runs[r].view, file_path,
                                            runs[r].config_path, NoEvent, <<>>))
                          ELSE ui_queue
    /\ runs' = Without(runs, r)
    /\ UNCHANGED <<fs, saveVars, next_run, editor_cmd, locVars, ui_pc, probe_next>>

(***************************************************************************)
(* DprintShowVersionCommand                                                *)
(***************************************************************************)
T_Version == <<"0", ".", "5", "0", "\n">>

\* what subprocess.run(["dprint", "--version"]) can produce
VersionResults ==
    { Exit(0, T_Version, T_Empty),
      Exit(0, T_Empty, T_Version),
      Exit(1, T_Empty, T_Err \o <<"\n">>),
      Raised("FileNotFoundError", T_Err),
      Raised("Exception", T_Err) }

\* sublime.message_dialog(msg)
DialogCmd(msg) ==
    [command |-> "message_dialog", is_loading |-> FALSE, is_dirty |-> FALSE,
     characters |-> msg]

\* the message DprintShowVersionCommand.run builds from a completed process
VersionMsg(res) ==
    LET out == strip_ansi(IF res.stdout # <<>> THEN res.stdout ELSE res.stderr)
    IN  IF res.returncode = 0
        THEN <<"dprint ">> \o Strip(out)
        ELSE <<"dprint error:\n">> \o Strip(out)

\* the user invokes the window command: the host calls run() on the UI
\* thread, which enters subprocess.run(["dprint", "--version"])
ShowVersionStart ==
    /\ ui_pc = "idle"
    /\ ui_pc' = "version"
    /\ UNCHANGED <<fs, saveVars, ui_queue, coordVars, editor_cmd, locVars, probe_next>>

\* subprocess.run returns or raises in run(); an exception other than
\* FileNotFoundError leaves run() without a dialog
ShowVersionDone ==
    /\ ui_pc = "version"
    /\ ui_pc' = "idle"
    /\ \E res \in VersionResults :
         editor_cmd' = IF res.kind = "exit" THEN DialogCmd(VersionMsg(res))
                       ELSE IF res.kind = "FileNotFoundError"
                       THEN DialogCmd(<<"dprint binary not found in PATH.">>)
                       ELSE editor_cmd
    /\ UNCHANGED <<fs, saveVars, ui_queue, coordVars, locVars, probe_next>>

(***************************************************************************)
(* Specifications                                                          *)
(***************************************************************************)
Ids == Paths \X (1..MaxEmits)

IdsOf(p) == {p} \X (1..MaxEmits)

\* the plugin with a host that emits one post-save event for each save, on
\* a file system whose config files stay as they are
Next ==
    \/ \E v \in Views : EmitSave(v)
    \/ \E v \in Views : HandlerProbeDone(v)
    \/ UiStartRunner
    \/ UiRequeue
    \/ UiMaybeRevert
    \/ UiAppend
    \/ \E r \in Ids : RunComplete(r)
    \/ \E r \in Ids : Finish(r)

Spec == Init /\ [][Next]_vars

\* the same with a host that may emit the event again for a save already
\* announced, and with config files created and deleted meanwhile.  The
\* plugin handles both kinds of event alike and only carries the config path
\* along, so its threads, queue, slots and flags move as under Spec.
NextEnv ==
    \/ \E v \in Views : EmitSave(v)
    \/ \E v \in Views : EmitAgain(v)
    \/ \E f \in LiveCfgFiles : FsChange(f)
    \/ \E v \in Views : HandlerProbeDone(v)
    \/ UiStartRunner
    \/ UiRequeue
    \/ UiMaybeRevert
    \/ UiAppend
    \/ \E r \in Ids : RunComplete(r)
    \/ \E r \in Ids : Finish(r)

SpecEnv == Init /\ [][NextEnv]_vars

\* the plugin of Spec with a user who also invokes the version command
NextCmd ==
    \/ Next
    \/ ShowVersionStart
    \/ ShowVersionDone

SpecCmd == Init /\ [][NextCmd]_vars

\* the plugin when no 'dprint fmt' process for FileP ever terminates; every
\* other thread that can take a step eventually takes it
NextHang ==
    \/ \E v \in Views : EmitSave(v)
    \/ \E v \in Views : HandlerProbeDone(v)
    \/ UiStartRunner
    \/ UiRequeue
    \/ UiMaybeRevert
    \/ UiAppend
    \/ \E r \in IdsOf(FileQ) : RunComplete(r)
    \/ \E r \in Ids : Finish(r)

UiStep == UiStartRunner \/ UiRequeue \/ UiMaybeRevert \/ UiAppend

SpecHang ==
    /\ Init
    /\ [][NextHang]_vars
    /\ WF_vars(UiStep)
    /\ WF_vars(HandlerProbeDone("v2"))
    /\ \A r \in IdsOf(FileQ) : WF_vars(RunComplete(r)) /\ WF_vars(Finish(r))

\* the plugin with saves of FileP only, when every external process
\* terminates and every thread that can take a step eventually takes it
NextLive ==
    \/ EmitSave("v1")
    \/ HandlerProbeDone("v1")
    \/ UiStartRunner
    \/ UiRequeue
    \/ UiMaybeRevert
    \/ UiAppend
    \/ \E r \in IdsOf(FileP) : RunComplete(r)
    \/ \E r \in IdsOf(FileP) : Finish(r)

SpecLive ==
    /\ Init
    /\ [][NextLive]_vars
    /\ WF_vars(UiStep)
    /\ WF_vars(HandlerProbeDone("v1"))
    /\ \A r \in IdsOf(FileP) : WF_vars(RunComplete(r)) /\ WF_vars(Finish(r))

\* one run of FileP just admitted, and every result 'dprint fmt' can give it
InitRun ==
    /\ fs = InitCfgFiles
    /\ emitted = 1
    /\ body_runs = [v \in Views |-> IF v = "v1" THEN 1 ELSE 0]
    /\ handlers = EmptyMap
    /\ busy = {}
    /\ ui_queue = <<>>
    /\ running_by_path = (FileP :> <<FileP, 1>>)
    /\ pending_by_path = {}
    /\ runs = (<<FileP, 1>> :>
                 NewRunner("v1", FileP, <<"proj", "dprint.json">>, <<FileP, 1>>))
    /\ next_run = [p \in Paths |-> IF p = FileP THEN 1 ELSE 0]
    /\ events_set = {}
    /\ editor_cmd = NoCmd
    /\ loc_start = <<>>
    /\ loc_cur = <<>>
    /\ loc_ret = None
    /\ loc_done = FALSE
    /\ ui_pc = "idle"
    /\ probe_next = NoResult

NextRun ==
    \/ \E r \in Ids : RunCompleteWith(r, AllFmtResults)
    \/ \E r \in Ids : Finish(r)
    \/ UiMaybeRevert
    \/ UiAppend

SpecRun == InitRun /\ [][NextRun]_vars

\* the locator alone, on every file system over Dirs and every start directory
InitFind ==
    /\ InitPlugin
    /\ probe_next = NoResult
    /\ fs \in SUBSET AllCfgFiles
    /\ loc_start \in Dirs
    /\ loc_cur = loc_start
    /\ loc_ret = None
    /\ loc_done = FALSE

\* one iteration of the 'while True' loop of find_dprint_config
LocateStep ==
    /\ ~loc_done
    /\ LET p == ConfigAt(loc_cur, 1, fs)
           parent == Dirname(loc_cur)
       IN  IF p # None
           THEN loc_ret' = p /\ loc_done' = TRUE /\ UNCHANGED loc_cur
           ELSE IF parent = loc_cur
           THEN loc_ret' = None /\ loc_done' = TRUE /\ UNCHANGED loc_cur
           ELSE loc_cur' = parent /\ UNCHANGED <<loc_ret, loc_done>>
    /\ UNCHANGED <<fs, loc_start, saveVars, ui_queue, coordVars, editor_cmd, ui_pc, probe_next>>

\* one handler waiting for its probe, and every result the probe can give
InitProbe ==
    /\ \E v \in {"v1", "v2"} :
         /\ body_runs = [w \in Views |-> IF w = v THEN 1 ELSE 0]
         /\ handlers = (v :> [file_path |-> file_name(v),
                              config_path |-> find_dprint_config(Dirname(file_name(v)),
                                                                 InitCfgFiles)])
         /\ busy = {v}
    /\ probe_next \in AllProbeResults
    /\ fs = InitCfgFiles
    /\ emitted = 1
    /\ ui_queue = <<>>
    /\ running_by_path = EmptyMap
    /\ pending_by_path = {}
    /\ runs = EmptyMap
    /\ next_run = [p \in Paths |-> 0]
    /\ events_set = {}
    /\ editor_cmd = NoCmd
    /\ ui_pc = "idle"
    /\ loc_start = <<>>
    /\ loc_cur = <<>>
    /\ loc_ret = None
    /\ loc_done = FALSE

\* the probe gives the result fixed for it
HandlerProbeFixed(v) == HandlerProbeWith(v, {probe_next})

NextProbe == \E v \in Views : HandlerProbeFixed(v)

SpecProbe == InitProbe /\ [][NextProbe]_vars

NextFind == LocateStep

SpecFind == InitFind /\ [][NextFind]_vars


(***************************************************************************)
(* Properties                                                              *)
(***************************************************************************)
\* the runs of file p among rs: started, _finish_and_maybe_rerun not yet called
RunsOfIn(rs, p) == {r \in DOMAIN rs : rs[r].file_path = p}

\* this step is the UI thread running _start_runner for file p
Dispatching(p) ==
    /\ ui_queue # <<>>
    /\ Head(ui_queue).fn = "_start_runner"
    /\ Head(ui_queue).file_path = p
    /\ ui_queue' = Tail(ui_queue)

\* this step schedules exactly one callback, and it is fn for file p
Schedules(fn, p) ==
    /\ Len(ui_queue') = Len(ui_queue) + 1
    /\ SubSeq(ui_queue', 1, Len(ui_queue)) = ui_queue
    /\ ui_queue'[Len(ui_queue')].fn = fn
    /\ ui_queue'[Len(ui_queue')].file_path = p

\* C1: for every file, at most one run is in flight (started and not yet at
\* _finish_and_maybe_rerun), reruns included
C1_AtMostOneInFlight ==
    \A p \in Paths : Cardinality(RunsOfIn(runs, p)) <= 1

\* C2: a save dispatched while a run of the file is in flight starts no run
\* in that step, and the completion of a run that saw one or more saves
\* dispatched schedules exactly one follow-up run
C2_CoalescedRerun ==
    [][\A p \in Paths :
          /\ (Dispatching(p) /\ RunsOfIn(runs, p) # {})
                => RunsOfIn(runs', p) = RunsOfIn(runs, p)
          /\ \A r \in RunsOfIn(runs, p) :
                (r \notin DOMAIN runs' /\ runs[r].dispatched >= 1)
                    => Schedules("_requeue", p)]_vars

\* C3: whatever result the run had, its completion leaves the file without a
\* slot; a slot always belongs to a run still in flight; and a save
\* dispatched when the file has no slot starts a run at once and is not
\* recorded as pending
C3_CompletionReleasesSlot ==
    /\ [](\A p \in DOMAIN running_by_path : running_by_path[p] \in RunsOfIn(runs, p))
    /\ [][\A p \in Paths :
            /\ \A r \in RunsOfIn(runs, p) :
                  (r \notin DOMAIN runs')
                     => /\ runs[r].result \in FmtResults
                        /\ p \notin DOMAIN running_by_path'
            /\ (Dispatching(p) /\ p \notin DOMAIN running_by_path)
                  => /\ RunsOfIn(runs', p) # RunsOfIn(runs, p)
                     /\ p \in DOMAIN running_by_path'
                     /\ pending_by_path' = pending_by_path]_vars

\* the first run of FileP raised an exception, reported it and finished, and
\* the next save of FileP was admitted: its run is in flight with a slot
C3_Witness ==
    /\ <<FileP, 1>> \notin DOMAIN runs
    /\ <<FileP, 1>> \in events_set
    /\ next_run[FileQ] = 0
    /\ editor_cmd = AppendCmd(UnexpectedMsg(T_Err) \o <<"\n">>)
    /\ <<FileP, 2>> \in DOMAIN runs
    /\ runs[<<FileP, 2>>].result = NoResult
    /\ running_by_path = (FileP :> <<FileP, 2>>)
    /\ pending_by_path = {}

\* the file of view v has no config file in any ancestor directory
Unconfigured(v, files) == find_dprint_config(Dirname(file_name(v)), files) = None

\* the views whose file has no config whatever files appear or disappear
NeverConfigured ==
    {v \in Views :
        \A files \in SUBSET LiveCfgFiles : Unconfigured(v, InitCfgFiles \cup files)}

\* C4: a save of a file for which no config is found starts no probe, and
\* the handler itself touches no slot, no pending flag, no run and schedules
\* nothing; for a file that never has a config there is never a probe, a
\* callback, a slot, a pending flag or a run
C4_NoConfigNoEffect ==
    /\ [](\A v \in NeverConfigured :
                  /\ Unconfigured(v, fs)
                  /\ v \notin DOMAIN handlers
                  /\ file_name(v) \notin DOMAIN running_by_path
                  /\ file_name(v) \notin pending_by_path
                  /\ next_run[file_name(v)] = 0
                  /\ \A r \in DOMAIN runs : runs[r].file_path # file_name(v)
                  /\ \A k \in 1..Len(ui_queue) : ui_queue[k].file_path # file_name(v))
    /\ [][emitted' # emitted
            => /\ UNCHANGED <<ui_queue, running_by_path, pending_by_path, runs,
                              next_run, editor_cmd>>
               /\ \A v \in Views :
                     Unconfigured(v, fs) => DOMAIN handlers' \ DOMAIN handlers # {v}]_vars

\* view v3, whose file has no config, was saved and the handler body ran
C4_Witness ==
    /\ body_runs["v3"] = 1
    /\ Unconfigured("v3", fs)
    /\ emitted = 1

\* C5: _maybe_revert issues 'revert' only when the view is neither loading
\* nor dirty at that moment, and it is scheduled only by a run that exited 0
C5_RevertOnlyWhenClean ==
    /\ [](editor_cmd.command = "revert"
            => ~editor_cmd.is_loading /\ ~editor_cmd.is_dirty)
    /\ [][\A p \in Paths :
            Schedules("_maybe_revert", p)
               => LET r == ui_queue'[Len(ui_queue')].run
                  IN  /\ r \in DOMAIN runs'
                      /\ runs'[r].result.kind = "exit"
                      /\ runs'[r].result.returncode = 0]_vars

\* _maybe_revert ran on a dirty view and issued nothing
C5_Witness == editor_cmd = RevertCmd(FALSE, TRUE, "none")

\* C6: for one physical save of a view the handler body runs at most once,
\* however many events the host emits for it
C6_BodyOncePerSave == \A v \in Views : body_runs[v] <= 1

\* C7: a rerun (a run started by _requeue) is started with the config path
\* that find_dprint_config gives at that time
C7_RerunFreshConfig ==
    [][\A r \in DOMAIN runs' \ DOMAIN runs :
          runs'[r].done_event = NoEvent
             => runs'[r].config_path =
                   find_dprint_config(Dirname(runs'[r].file_path), fs)]_vars

\* the text contains the needle as a contiguous piece
Within(needle, text) == Contains(text, needle)

\* C8: a run schedules a panel write if and only if it exits nonzero with a
\* combined output (stdout, newline, stderr; escape sequences removed, lower
\* case) containing neither "no files" nor "no matching files", or the binary
\* is missing, or another exception is raised; the failure message contains
\* the exit code, the stdout text and the stderr text
C8_PanelIffFailure ==
    [][\A r \in DOMAIN runs :
          (runs[r].pc = "fmt" /\ r \in DOMAIN runs' /\ runs'[r].pc # "fmt")
             => LET res == runs'[r].result
                    isExit == res.kind = "exit"
                    out == IF isExit THEN strip_ansi(res.stdout) ELSE <<>>
                    err == IF isExit THEN strip_ansi(res.stderr) ELSE <<>>
                    low == Lower(out \o <<"\n">> \o err)
                    failing == /\ isExit
                               /\ res.returncode # 0
                               /\ ~Within(<<"n","o"," ","f","i","l","e","s">>, low)
                               /\ ~Within(<<"n","o"," ","m","a","t","c","h","i","n","g",
                                            " ","f","i","l","e","s">>, low)
                    writes == failing \/ ~isExit
                    appended == Schedules("_append", None)
                    text == ui_queue'[Len(ui_queue')].text
                IN  /\ appended <=> writes
                    /\ ~appended => (ui_queue' = ui_queue \/ ~writes)
                    /\ failing => /\ Within(IntStr(res.returncode), text)
                                  /\ Within(out, text)
                                  /\ Within(err, text)
                    /\ (isExit /\ res.returncode = 0) => ~appended]_vars

\* the run exited 2 with "no " on stdout and "Files" on stderr: the two
\* streams are joined by a newline, so this is a failure and it is reported
C8_Witness ==
    /\ <<FileP, 1>> \in DOMAIN runs
    /\ runs[<<FileP, 1>>].result = Exit(2, T_No, T_Files)
    /\ ui_queue # <<>>
    /\ ui_queue[1].fn = "_append"
    /\ ui_queue[1].text = FailedMsg(2, T_No, T_Files)

\* a _start_runner callback for FileQ waits in the UI queue
QueuedFor(p) ==
    \E k \in 1..Len(ui_queue) :
        ui_queue[k].fn = "_start_runner" /\ ui_queue[k].file_path = p

\* C9: while a run of FileP is in flight, and when it never terminates, a
\* save of FileQ is still handled, a dispatch for FileQ that finds no slot for
\* FileQ starts FileQ's run at once, every dispatch for FileQ waiting in
\* the queue is followed by a new run of FileQ, and every run of FileQ
\* completes (whenever runs of FileQ are in flight, a later state has none
\* of them left)
C9_OtherFileProceeds ==
    /\ ("v2" \in DOMAIN handlers) ~> ("v2" \notin DOMAIN handlers)
    /\ \A n \in 0..(MaxEmits - 1) :
          (QueuedFor(FileQ) /\ next_run[FileQ] = n) ~> (next_run[FileQ] > n)
    /\ (RunsOfIn(runs, FileQ) # {}) ~> (RunsOfIn(runs, FileQ) = {})
    /\ [][(Dispatching(FileQ) /\ FileQ \notin DOMAIN running_by_path)
             => RunsOfIn(runs', FileQ) # RunsOfIn(runs, FileQ)]_vars

\* the first run of FileP is still in its process, and a run of FileQ has
\* been admitted, has completed and has set its event
C9_Witness ==
    /\ <<FileP, 1>> \in DOMAIN runs
    /\ runs[<<FileP, 1>>].pc = "fmt"
    /\ FileP \in DOMAIN running_by_path
    /\ <<FileQ, 1>> \in events_set
    /\ <<FileQ, 1>> \notin DOMAIN runs

\* the directories on the chain start, parent(start), ..., root
Chain(start) == {SubSeq(start, 1, k) : k \in 0..Len(start)}

\* directory d contains one of the two names
HoldsConfig(d, files) ==
    Join(d, "dprint.json") \in files \/ Join(d, "dprint.jsonc") \in files

\* what the locator is to return: in the nearest directory of the chain that
\* holds a config, dprint.json if it is there and dprint.jsonc otherwise
Nearest(start, files) ==
    LET ds == {d \in Chain(start) : HoldsConfig(d, files)}
    IN  IF ds = {} THEN None
        ELSE LET d == CHOOSE x \in ds : \A y \in ds : Len(y) <= Len(x)
             IN  IF Join(d, "dprint.json") \in files
                 THEN Join(d, "dprint.json")
                 ELSE Join(d, "dprint.jsonc")

\* C10: find_dprint_config terminates (each iteration returns or moves to a
\* strictly shorter directory) and returns the config of the nearest
\* directory of the chain, dprint.json before dprint.jsonc, and None exactly
\* when no directory of the chain holds either
C10_NearestConfig ==
    /\ [](loc_done
            => /\ loc_ret = Nearest(loc_start, fs)
               /\ loc_ret = find_dprint_config(loc_start, fs)
               /\ (loc_ret = None) <=>
                     (\A d \in Chain(loc_start) : ~HoldsConfig(d, fs)))
    /\ [][~loc_done => (loc_done' \/ Len(loc_cur') < Len(loc_cur))]_vars

\* started in proj/src, which holds nothing, the locator returned
\* proj/dprint.json although proj holds dprint.jsonc too and the root holds
\* a config as well
C10_Witness ==
    /\ loc_done
    /\ loc_start = <<"proj", "src">>
    /\ fs = {<<"proj", "dprint.json">>, <<"proj", "dprint.jsonc">>, <<"dprint.json">>}
    /\ loc_ret = <<"proj", "dprint.json">>

\* a callback fn of file p waits in the UI queue
Queued(fn, p) ==
    \E k \in 1..Len(ui_queue) : ui_queue[k].fn = fn /\ ui_queue[k].file_path = p

\* C11: a file has a slot in _running_by_path whenever one of its runs is in
\* flight or a follow-up run of it is scheduled (_requeue queued) and not
\* yet started
C11_SlotWhileRunOrScheduled ==
    \A p \in Paths :
        (RunsOfIn(runs, p) # {} \/ Queued("_requeue", p))
            => p \in DOMAIN running_by_path

\* C12: the UI-side effects of a run are executed before the run releases
\* its slot, so that while a reconciliation (_maybe_revert) of a run waits in
\* the UI queue, no other run of that file has its formatter in flight
C12_EffectsBeforeRelease ==
    \A k \in 1..Len(ui_queue) :
        ui_queue[k].fn = "_maybe_revert"
            => \A r \in RunsOfIn(runs, ui_queue[k].file_path) :
                  r = ui_queue[k].run \/ runs[r].pc # "fmt"

\* this step is the UI thread executing the callback at the head of its queue,
\* and that callback is one of fns
UiExecutes(fns) ==
    /\ ui_queue # <<>>
    /\ Head(ui_queue).fn \in fns
    /\ ui_queue' = Tail(ui_queue)

\* C13: the editor is mutated (panel append and show, 'revert') only in a
\* step of the UI thread executing a callback handed over by on_main_thread;
\* the step of a worker thread that ends a run, and every step of the save
\* handler, leaves the editor as it is and at most hands one _append or
\* _maybe_revert callback to the UI queue, which it does when the run exited
\* 0 (_maybe_revert) and when it raised (_append)
C13_EditorOnlyOnUiThread ==
    [][/\ editor_cmd' # editor_cmd => UiExecutes({"_append", "_maybe_revert"})
       /\ \A r \in DOMAIN runs :
             (runs[r].pc = "fmt" /\ r \in DOMAIN runs' /\ runs'[r].pc # "fmt")
                => LET res == runs'[r].result
                   IN  /\ editor_cmd' = editor_cmd
                       /\ \/ ui_queue' = ui_queue
                          \/ Schedules("_append", None)
                          \/ Schedules("_maybe_revert", runs[r].file_path)
                       /\ res.kind # "exit" => Schedules("_append", None)
                       /\ (res.kind = "exit" /\ res.returncode = 0)
                             => Schedules("_maybe_revert", runs[r].file_path)
       /\ (handlers' # handlers \/ emitted' # emitted) => editor_cmd' = editor_cmd]_vars

\* the UI thread has executed a reconciliation that issued 'revert', after
\* the run that scheduled it had finished
C13_Witness ==
    /\ editor_cmd = RevertCmd(FALSE, FALSE, "revert")
    /\ ui_queue = <<>>
    /\ DOMAIN runs = {}
    /\ <<FileP, 1>> \in events_set

\* C14: the UI thread is never waiting for an external process
C14_UiThreadNeverWaits == ui_pc = "idle"

\* C15: no invocation of on_post_save_async waits for an external process:
\* no handler is ever inside the probe's subprocess.run
C15_HandlerNeverWaits == DOMAIN handlers = {}

\* this step is a whole execution of _finish_and_maybe_rerun for a run, all
\* of it inside 'with _running_lock'
Finishing == \E r \in DOMAIN runs : r \notin DOMAIN runs'

\* C16: no thread calls into the editor API while holding _running_lock: the
\* critical section of _finish_and_maybe_rerun schedules no UI callback
C16_NoEditorCallUnderLock ==
    [][Finishing => ui_queue' = ui_queue]_vars

\* a line of text t (a maximal piece without "\n"), blanks at its ends
\* removed, is a path whose last component is name
HasLineNamed(t, name) ==
    \E i \in 1..(Len(t) + 1), j \in 0..Len(t) :
        /\ i <= j + 1
        /\ i = 1 \/ t[i - 1] = "\n"
        /\ j = Len(t) \/ t[j + 1] = "\n"
        /\ \A k \in i..j : t[k] # "\n"
        /\ LET line == Strip(SubSeq(t, i, j))
           IN  /\ line # <<>>
               /\ line[Len(line)] = name
               /\ Len(line) = 1 \/ line[Len(line) - 1] = "/"

\* the probe says the file is not covered: it exited 0 and no line of its
\* cleaned output has the basename of file_path
ProbeNegative(file_path, res) ==
    /\ res.kind = "exit"
    /\ res.returncode = 0
    /\ ~HasLineNamed(Strip(strip_ansi(res.stdout)), Basename(file_path))

\* C17: handled_by_dprint returns False exactly when the probe exits 0 and
\* no line of its cleaned output has the basename of the saved file (empty
\* output included); on a nonzero exit and on any exception it returns True,
\* and then the handler hands _start_runner for the file to the UI thread
C17_ProbeSuppressesOnlyNegative ==
    \A v \in Views :
        (body_runs[v] = 1 /\ v \notin DOMAIN handlers)
            => /\ handled_by_dprint(file_name(v), probe_next)
                     = ~ProbeNegative(file_name(v), probe_next)
               /\ IF ProbeNegative(file_name(v), probe_next)
                  THEN ui_queue = <<>>
                  ELSE /\ Len(ui_queue) = 1
                       /\ ui_queue[1].fn = "_start_runner"
                       /\ ui_queue[1].file_path = file_name(v)

\* the probe exited 0 and printed the path of a file in another directory
\* with the saved file's basename: the save of FileP went on to the coordinator
C17_Witness ==
    /\ probe_next = Exit(0, PathText(<<"other", "a.ts">>), T_Err)
    /\ DOMAIN handlers = {}
    /\ body_runs["v1"] = 1
    /\ Len(ui_queue) = 1
    /\ ui_queue[1].file_path = FileP

\* C18: when every process terminates and the UI thread keeps executing its
\* callbacks, every save that passed the handler's filters (its _start_runner
\* is queued) is followed by a 'dprint fmt' run of the file started after the
\* save was dispatched: while the callback waits, however many runs of the
\* file have been started so far, one more is started later
C18_NoSaveLost ==
    \A n \in 0..(MaxEmits - 1) :
        (Queued("_start_runner", FileP) /\ next_run[FileP] = n)
            ~> (next_run[FileP] > n)

\* FileP was saved three times; two runs of it were started and have
\* finished, and nothing is left waiting
C18_Witness ==
    /\ emitted = 3
    /\ body_runs = [v \in Views |-> IF v = "v1" THEN 1 ELSE 0]
    /\ next_run[FileP] = 2
    /\ <<FileP, 1>> \in events_set
    /\ DOMAIN runs = {}
    /\ ui_queue = <<>>
    /\ pending_by_path = {}
    /\ DOMAIN handlers = {}

\* C19: a completing run releases only its own slot: the slot its
\* _finish_and_maybe_rerun pops and the event it sets are the ones created
\* when that run was admitted
C19_ReleasesOnlyOwnSlot ==
    [][\A r \in DOMAIN runs :
          (r \notin DOMAIN runs')
             => LET p == runs[r].file_path
                IN  /\ p \in DOMAIN running_by_path
                         => running_by_path[p] = runs[r].done_event
                    /\ events_set' \ events_set \subseteq {runs[r].done_event}]_vars

\* C20: between the critical sections, a path is in _pending_by_path only if
\* it is in _running_by_path; and when no run is in flight and no UI callback
\* is queued, both are empty
C20_PendingWithinSlots ==
    /\ pending_by_path \subseteq DOMAIN running_by_path
    /\ (DOMAIN runs = {} /\ ui_queue = <<>>)
          => (DOMAIN running_by_path = {} /\ pending_by_path = {})

\* a save of FileQ was dispatched while FileQ's first run held the slot
C20_Witness ==
    /\ pending_by_path = {FileQ}
    /\ running_by_path = (FileQ :> <<FileQ, 1>>)
    /\ ui_queue = <<>>
    /\ next_run[FileP] = 0

====
